---------------------------- MODULE Spec2Model ----------------------------
(***************************************************************************)
(* Model of the firn terminal core: the incremental UTF-8 decoder and the  *)
(* drain loop of Translator (translator.rs), the ECMA-48 node parser       *)
(* (parser.rs) and the ragged cell grid DataComponent (data.rs).           *)
(*                                                                         *)
(* Bytes are integers 0..255, characters are Unicode code points (Nat),    *)
(* strings are sequences of code points.  Option<T> is a sequence of       *)
(* length 0 (None) or 1 (Some).  Rows and columns are 0-indexed as in the  *)
(* source; TLA+ sequences are 1-indexed, hence the +1 at every index.      *)
(* A Rust panic (failed index, failed assert!) is the flag `panicked`.     *)
(***************************************************************************)
EXTENDS Integers, Sequences, FiniteSets, TLC

VARIABLES
    lines,            \* DataComponent.lines : Vec<Line>, a Line is its Vec<Cell>
    active_position,  \* DataComponent.active_position : Position
    panicked,         \* TRUE once an operation has panicked (the process is gone)
    panic_at,         \* the place of that panic, "" while there is none
    text_buffer,      \* Translator.text_buffer : String
    incomplete,       \* Translator.incomplete : utf8::Incomplete (its buffered bytes)
    fed,              \* history: every byte passed to write so far, in order
    op,               \* history: the last operation applied and its argument
    pre,              \* history: the grid as the last operation found it
    parse_result,     \* the NodeParseResult of the last Node::parse call
    rendered          \* the String render returned, when it was the last operation

vars ==
    <<lines, active_position, panicked, panic_at, text_buffer, incomplete, fed, op, pre,
      parse_result, rendered>>

\* ------------------------------------------------------------------------
\* Bounds of the model
\* ------------------------------------------------------------------------
MaxFed == 4       \* total number of bytes written to one Translator
MaxRows == 2      \* lines a grid may grow to under GridSpec
MaxCols == 2      \* cells a line may grow to under GridSpec
MaxWide == 5      \* cells a line may grow to under EraseSpec
MaxInput == 5     \* characters of an input of Node::parse under ParseSpec
MaxText == 4      \* characters written to one grid under TextSpec
MaxTall == 3      \* lines a grid may grow to under RenderSpec
MaxSent == 5      \* total number of bytes written to one Translator under PendingSpec

\* ------------------------------------------------------------------------
\* Option, characters
\* ------------------------------------------------------------------------
None == <<>>
Some(v) == <<v>>
IsSome(o) == Len(o) = 1
Unwrap(o) == o[1]

ESC == 27
BEL == 7
REPLACEMENT_CHARACTER == 65533
CURSOR_MARK == 95
SPACE == 32

Range(s) == {s[i] : i \in 1..Len(s)}
\* `let v = value; In(v)`: the value is computed once and bound
Let(value, In(_)) == In(value)
Drop(s, n) == SubSeq(s, n + 1, Len(s))
Take(s, n) == SubSeq(s, 1, n)
RECURSIVE Flatten(_)
Flatten(ss) == IF ss = <<>> THEN <<>> ELSE Head(ss) \o Flatten(Tail(ss))

\* char::is_control: general category Cc
is_control(ch) == ch \in 0..31 \/ ch \in 127..159

\* char::is_whitespace: the White_Space property
is_whitespace(ch) ==
    \/ ch \in 9..13
    \/ ch \in {32, 133, 160, 5760, 8232, 8233, 8239, 8287, 12288}
    \/ ch \in 8192..8202


\* ------------------------------------------------------------------------
\* UTF-8 validation as done by str::from_utf8, on which utf8::decode and
\* Incomplete::try_complete (called from read_bytes_to_buffer) are built
\* ------------------------------------------------------------------------
utf8_char_width(b) ==
    IF b < 128 THEN 1
    ELSE IF b \in 194..223 THEN 2
    ELSE IF b \in 224..239 THEN 3
    ELSE IF b \in 240..244 THEN 4
    ELSE 0

IsContinuation(b) == b \in 128..191

\* the ranges the second byte of a 3- or 4-byte sequence must lie in
SecondByteOk(first, second) ==
    \/ first = 224 /\ second \in 160..191
    \/ first \in 225..236 /\ second \in 128..191
    \/ first = 237 /\ second \in 128..159
    \/ first \in 238..239 /\ second \in 128..191
    \/ first = 240 /\ second \in 144..191
    \/ first \in 241..243 /\ second \in 128..191
    \/ first = 244 /\ second \in 128..143

\* One step of the validation loop at (1-indexed) position i of v:
\* a whole code point, an invalid sequence of error_len bytes, or the end of
\* the input inside a sequence that is valid so far.
Utf8Next(v, i) ==
    LET first == v[i]
        w == utf8_char_width(first)
        n == Len(v)
        Ok(len, cp) == [kind |-> "ok", len |-> len, cp |-> cp]
        Invalid(len) == [kind |-> "invalid", len |-> len, cp |-> 0]
        Incomplete == [kind |-> "incomplete", len |-> 0, cp |-> 0]
    IN  IF w = 1 THEN Ok(1, first)
        ELSE IF w = 2 THEN
            IF i + 1 > n THEN Incomplete
            ELSE IF ~IsContinuation(v[i + 1]) THEN Invalid(1)
            ELSE Ok(2, (first % 32) * 64 + (v[i + 1] % 64))
        ELSE IF w = 3 THEN
            IF i + 1 > n THEN Incomplete
            ELSE IF ~SecondByteOk(first, v[i + 1]) THEN Invalid(1)
            ELSE IF i + 2 > n THEN Incomplete
            ELSE IF ~IsContinuation(v[i + 2]) THEN Invalid(2)
            ELSE Ok(3, (first % 16) * 4096 + (v[i + 1] % 64) * 64 + (v[i + 2] % 64))
        ELSE IF w = 4 THEN
            IF i + 1 > n THEN Incomplete
            ELSE IF ~SecondByteOk(first, v[i + 1]) THEN Invalid(1)
            ELSE IF i + 2 > n THEN Incomplete
            ELSE IF ~IsContinuation(v[i + 2]) THEN Invalid(2)
            ELSE IF i + 3 > n THEN Incomplete
            ELSE IF ~IsContinuation(v[i + 3]) THEN Invalid(3)
            ELSE Ok(4, (first % 8) * 262144 + (v[i + 1] % 64) * 4096
                       + (v[i + 2] % 64) * 64 + (v[i + 3] % 64))
        ELSE Invalid(1)

RECURSIVE FromUtf8At(_, _, _)
FromUtf8At(v, i, acc) ==
    IF i > Len(v)
    THEN [ok |-> TRUE, valid_up_to |-> Len(v), error_len |-> None, text |-> acc]
    ELSE Let(Utf8Next(v, i), LAMBDA c :
             IF c.kind = "ok" THEN FromUtf8At(v, i + c.len, Append(acc, c.cp))
             ELSE [ok |-> FALSE, valid_up_to |-> i - 1,
                   error_len |-> IF c.kind = "invalid" THEN Some(c.len) ELSE None,
                   text |-> acc])

\* str::from_utf8: Ok(text), or Utf8Error{valid_up_to, error_len} with the
\* decoding of the valid prefix
from_utf8(v) == FromUtf8At(v, 1, <<>>)

\* utf8::decode
decode(input) ==
    Let(from_utf8(input), LAMBDA r :
    Let(Drop(input, r.valid_up_to), LAMBDA after_valid :
        IF r.ok THEN [kind |-> "Ok", text |-> r.text]
        ELSE IF IsSome(r.error_len)
        THEN [kind |-> "Invalid", valid_prefix |-> r.text,
              invalid_sequence |-> Take(after_valid, Unwrap(r.error_len)),
              remaining_input |-> Drop(after_valid, Unwrap(r.error_len))]
        ELSE [kind |-> "Incomplete", valid_prefix |-> r.text,
              incomplete_suffix |-> after_valid]))

\* Mutation of try_complete: every byte copied into the buffer counts as
\* consumed, also when only a prefix of the buffer was decoded.
try_complete_consumes_copied(buffer, input) ==
    LET unwritten == 4 - Len(buffer)
        copied_from_input == IF unwritten < Len(input) THEN unwritten ELSE Len(input)
        spliced == buffer \o Take(input, copied_from_input)
        Done(result, text) ==
            [result |-> result, text |-> text,
             remaining_input |-> Drop(input, copied_from_input), buffer |-> <<>>]
    IN  Let(from_utf8(spliced), LAMBDA r :
        IF r.ok \/ r.valid_up_to > 0 THEN Done("Ok", r.text)
        ELSE IF IsSome(r.error_len) THEN Done("Err", <<>>)
        ELSE [result |-> "None", text |-> <<>>, remaining_input |-> <<>>,
              buffer |-> spliced])

\* utf8::Incomplete::try_complete on the 4-byte buffer `buffer` (its first
\* buffer_len bytes): result "Ok" (text), "Err" (invalid sequence) or "None"
\* (still incomplete, every input byte taken into the buffer).  "Panic" is
\* the unwrap of a failed checked_sub.
try_complete(buffer, input) ==
    LET initial_buffer_len == Len(buffer)
        unwritten == 4 - initial_buffer_len
        copied_from_input == IF unwritten < Len(input) THEN unwritten ELSE Len(input)
        spliced == buffer \o Take(input, copied_from_input)
        Done(result, text, consumed) ==
            IF consumed < 0
            THEN [result |-> "Panic", text |-> <<>>, remaining_input |-> input,
                  buffer |-> buffer]
            ELSE [result |-> result, text |-> text,
                  remaining_input |-> Drop(input, consumed), buffer |-> <<>>]
    IN  Let(from_utf8(spliced), LAMBDA r :
        IF r.ok THEN Done("Ok", r.text, copied_from_input)
        ELSE IF r.valid_up_to > 0
        THEN Done("Ok", r.text, r.valid_up_to - initial_buffer_len)
        ELSE IF IsSome(r.error_len)
        THEN Done("Err", <<>>, Unwrap(r.error_len) - initial_buffer_len)
        ELSE [result |-> "None", text |-> <<>>, remaining_input |-> <<>>,
              buffer |-> spliced])

\* ------------------------------------------------------------------------
\* Translator::read_bytes_to_buffer.  A translator is
\* [text_buffer, incomplete, panicked].
\* ------------------------------------------------------------------------
TranslatorNew == [text_buffer |-> <<>>, incomplete |-> <<>>, panicked |-> FALSE]

\* Mutation of DecodeLoop: the loop ends at the first invalid sequence and
\* the input after it is dropped.
DecodeLoopStopsAtInvalid(t, input) ==
    Let(decode(input), LAMBDA d :
        IF d.kind = "Ok"
        THEN [t EXCEPT !.text_buffer = @ \o d.text]
        ELSE IF d.kind = "Incomplete"
        THEN [t EXCEPT !.text_buffer = @ \o d.valid_prefix,
                       !.incomplete = d.incomplete_suffix]
        ELSE [t EXCEPT !.text_buffer = @ \o d.valid_prefix \o <<REPLACEMENT_CHARACTER>>])

\* the `loop` over utf8::decode
RECURSIVE DecodeLoop(_, _)
DecodeLoop(t, input) ==
    Let(decode(input), LAMBDA d :
        IF d.kind = "Ok"
        THEN [t EXCEPT !.text_buffer = @ \o d.text]
        ELSE IF d.kind = "Incomplete"
        THEN [t EXCEPT !.text_buffer = @ \o d.valid_prefix,
                       !.incomplete = d.incomplete_suffix]
        ELSE DecodeLoop(
                [t EXCEPT !.text_buffer = @ \o d.valid_prefix \o <<REPLACEMENT_CHARACTER>>],
                d.remaining_input))

read_bytes_to_buffer(t, input) ==
    IF t.incomplete # <<>>
    THEN Let(try_complete(t.incomplete, input), LAMBDA c :
             IF c.result = "Ok"
             THEN DecodeLoop([t EXCEPT !.text_buffer = @ \o c.text,
                                       !.incomplete = c.buffer],
                             c.remaining_input)
             ELSE IF c.result = "Err"
             THEN DecodeLoop([t EXCEPT !.text_buffer = @ \o <<REPLACEMENT_CHARACTER>>,
                                       !.incomplete = c.buffer],
                             c.remaining_input)
             ELSE IF c.result = "None"
             THEN [t EXCEPT !.incomplete = c.buffer]
             ELSE [t EXCEPT !.panicked = TRUE])
    ELSE DecodeLoop(t, input)

\* ------------------------------------------------------------------------
\* Extended grapheme clusters (UnicodeSegmentation::graphemes(true)) for the
\* character classes the model's alphabets contain: Control (GB4/GB5),
\* Extend and ZWJ (GB9); every other character is of class Other (GB999).
\* ------------------------------------------------------------------------
IsGraphemeExtend(ch) == ch \in 768..879 \/ ch = 8205

\* number of characters of s, from position i on, that extend a cluster
RECURSIVE ExtendRun(_, _)
ExtendRun(s, i) ==
    IF i <= Len(s) /\ IsGraphemeExtend(s[i]) THEN 1 + ExtendRun(s, i + 1) ELSE 0

RECURSIVE graphemes(_)
graphemes(s) ==
    IF s = <<>> THEN <<>>
    ELSE LET n == IF is_control(s[1]) THEN 1 ELSE 1 + ExtendRun(s, 2)
         IN  <<Take(s, n)>> \o graphemes(Drop(s, n))

\* ------------------------------------------------------------------------
\* parser.rs.  A Chars cursor is the sequence of characters not yet read.
\* TryIntermediateResult is [tag, chars, val] with tag "Match", "NoMatch"
\* or "Indeterminate"; the `?` operator returns a non-Match unchanged.
\* A predicate `func` on characters is [neg, set]: it accepts the members of
\* `set`, or with neg the characters outside it.
\* ------------------------------------------------------------------------
Match(chars, val) == [tag |-> "Match", chars |-> chars, val |-> val]
NoMatch == [tag |-> "NoMatch"]
Indeterminate == [tag |-> "Indeterminate"]
IsMatch(r) == r.tag = "Match"

Accepts(func, ch) == (ch \in func.set) # func.neg
OneOf(set) == [neg |-> FALSE, set |-> set]
CharRange(lo, hi) == OneOf(lo..hi)
\* |ch| !ch.is_control()
NotControl == [neg |-> TRUE, set |-> {ch \in 0..159 : is_control(ch)}]
\* |_| true
AnyChar == [neg |-> TRUE, set |-> {}]

\* Mutation of optional: an absent group is reported as an empty one.
optional_empty_for_absent(result, chars) ==
    Let(result, LAMBDA r :
    IF r.tag = "Match" THEN Match(r.chars, Some(r.val))
    ELSE IF r.tag = "NoMatch" THEN Match(chars, Some(<<>>))
    ELSE Indeterminate)

\* TryIntermediateResult::optional
optional(result, chars) ==
    Let(result, LAMBDA r :
    IF r.tag = "Match" THEN Match(r.chars, Some(r.val))
    ELSE IF r.tag = "NoMatch" THEN Match(chars, None)
    ELSE Indeterminate)

RECURSIVE skip_delimiter(_, _)
skip_delimiter(chars, prefix) ==
    IF prefix = <<>> THEN Match(chars, <<>>)
    ELSE IF chars = <<>> THEN Indeterminate
    ELSE IF Head(chars) = Head(prefix) THEN skip_delimiter(Tail(chars), Tail(prefix))
    ELSE NoMatch

\* Mutation of capture_single: the end of the input is a NoMatch.
capture_single_no_match_at_end(chars, func) ==
    IF chars = <<>> THEN NoMatch
    ELSE IF Accepts(func, Head(chars)) THEN Match(Tail(chars), Head(chars))
    ELSE NoMatch

capture_single(chars, func) ==
    IF chars = <<>> THEN Indeterminate
    ELSE IF Accepts(func, Head(chars)) THEN Match(Tail(chars), Head(chars))
    ELSE NoMatch

capture_single_range(chars, range) == capture_single(chars, range)

\* the `loop` of capture_group: extend result while func accepts
RECURSIVE CaptureGroupLoop(_, _, _)
CaptureGroupLoop(chars, func, result) ==
    IF chars = <<>> THEN Indeterminate
    ELSE IF Accepts(func, Head(chars))
    THEN CaptureGroupLoop(Tail(chars), func, Append(result, Head(chars)))
    ELSE Match(chars, result)

capture_group(chars, func) ==
    Let(capture_single(chars, func), LAMBDA first :
        IF ~IsMatch(first) THEN first
        ELSE CaptureGroupLoop(first.chars, func, <<first.val>>))

\* Mutation of CaptureGroupLazyLoop: the group ends after its first character.
CaptureGroupLazyLoopStopsEarly(chars, func, result) == Match(chars, result)

\* the `loop` of capture_group_lazy: the end of the input ends the group too
RECURSIVE CaptureGroupLazyLoop(_, _, _)
CaptureGroupLazyLoop(chars, func, result) ==
    IF chars = <<>> THEN Match(chars, result)
    ELSE IF Accepts(func, Head(chars))
    THEN CaptureGroupLazyLoop(Tail(chars), func, Append(result, Head(chars)))
    ELSE Match(chars, result)

\* Mutation of capture_group_lazy: the end of the input does not end the
\* group, as in capture_group.
capture_group_lazy_needs_lookahead(chars, func) == capture_group(chars, func)

capture_group_lazy(chars, func) ==
    IF chars = <<>> THEN Indeterminate
    ELSE IF Accepts(func, Head(chars))
    THEN CaptureGroupLazyLoop(Tail(chars), func, <<Head(chars)>>)
    ELSE NoMatch

capture_group_range(chars, range) == capture_group(chars, range)

\* Node variants
Text(text) == [kind |-> "Text", text |-> text]
C0Control(ch) == [kind |-> "C0Control", ch |-> ch]
C1Control(ch) == [kind |-> "C1Control", ch |-> ch]
ControlSequence(p, i, f) ==
    [kind |-> "ControlSequence", parameter_bytes |-> p, intermediate_bytes |-> i,
     final_byte |-> f]
IndependentControlFunction(ch) == [kind |-> "IndependentControlFunction", ch |-> ch]
ControlString(opening, character_string) ==
    [kind |-> "ControlString", opening |-> opening,
     character_string |-> character_string]
Unknown(ch) == [kind |-> "Unknown", ch |-> ch]

parse_c0_control(chars) ==
    Let(capture_single_range(chars, CharRange(0, 31)), LAMBDA r :
        IF ~IsMatch(r) THEN r ELSE Match(r.chars, C0Control(r.val)))

parse_c1_control(chars) ==
    Let(skip_delimiter(chars, <<ESC>>), LAMBDA d :
        IF ~IsMatch(d) THEN d ELSE
    Let(capture_single_range(d.chars, CharRange(64, 95)), LAMBDA r :
        IF ~IsMatch(r) THEN r ELSE Match(r.chars, C1Control(r.val))))

parse_control_sequence(chars) ==
    Let(skip_delimiter(chars, <<ESC, 91>>), LAMBDA d :
        IF ~IsMatch(d) THEN d ELSE
    Let(optional(capture_group_range(d.chars, CharRange(48, 63)), d.chars), LAMBDA p :
        IF ~IsMatch(p) THEN p ELSE
    Let(optional(capture_group_range(p.chars, CharRange(32, 47)), p.chars), LAMBDA i :
        IF ~IsMatch(i) THEN i ELSE
    Let(capture_single_range(i.chars, CharRange(64, 126)), LAMBDA f :
        IF ~IsMatch(f) THEN f
        ELSE Match(f.chars, ControlSequence(p.val, i.val, f.val))))))

parse_independent_control_function(chars) ==
    Let(skip_delimiter(chars, <<ESC>>), LAMBDA d :
        IF ~IsMatch(d) THEN d ELSE
    Let(capture_single_range(d.chars, CharRange(96, 126)), LAMBDA r :
        IF ~IsMatch(r) THEN r
        ELSE Match(r.chars, IndependentControlFunction(r.val))))

\* Mutation of CharacterStringLoop: only BEL ends the character string.
RECURSIVE CharacterStringLoopBelOnly(_, _)
CharacterStringLoopBelOnly(chars, character_string) ==
    Let(skip_delimiter(chars, <<BEL>>), LAMBDA bel :
        IF bel.tag = "Match" THEN Match(bel.chars, character_string)
        ELSE IF bel.tag = "Indeterminate" THEN Indeterminate
        ELSE CharacterStringLoopBelOnly(Tail(chars), Append(character_string, Head(chars))))

RECURSIVE CharacterStringLoop(_, _)
CharacterStringLoop(chars, character_string) ==
    Let(skip_delimiter(chars, <<ESC, 92>>), LAMBDA st :
        IF st.tag = "Match" THEN Match(st.chars, character_string)
        ELSE IF st.tag = "Indeterminate" THEN Indeterminate ELSE
    Let(skip_delimiter(chars, <<BEL>>), LAMBDA bel :
        IF bel.tag = "Match" THEN Match(bel.chars, character_string)
        ELSE IF bel.tag = "Indeterminate" THEN Indeterminate
        ELSE IF chars = <<>> THEN Indeterminate
        ELSE CharacterStringLoop(Tail(chars), Append(character_string, Head(chars)))))

capture_character_string(chars) == CharacterStringLoop(chars, <<>>)

APC == 95
DCS == 80
OSC == 93
PM == 94
SOS == 88

parse_control_string(chars) ==
    Let(skip_delimiter(chars, <<ESC>>), LAMBDA d :
        IF ~IsMatch(d) THEN d ELSE
    Let(capture_single(d.chars, OneOf({APC, DCS, OSC, PM, SOS})), LAMBDA o :
        IF ~IsMatch(o) THEN o ELSE
    Let(capture_character_string(o.chars), LAMBDA c :
        IF ~IsMatch(c) THEN c
        ELSE Match(c.chars, ControlString(o.val, c.val)))))

parse_text(chars) ==
    Let(capture_group_lazy(chars, NotControl), LAMBDA r :
        IF ~IsMatch(r) THEN r ELSE Match(r.chars, Text(r.val)))

\* Mutation of parse_unknown: the character is reported but not consumed.
parse_unknown_keeps_char(chars) ==
    Let(capture_single(chars, AnyChar), LAMBDA r :
        IF ~IsMatch(r) THEN r ELSE Match(chars, Unknown(r.val)))

parse_unknown(chars) ==
    Let(capture_single(chars, AnyChar), LAMBDA r :
        IF ~IsMatch(r) THEN r ELSE Match(r.chars, Unknown(r.val)))

\* Mutation of ParseFn: parse_c1_control comes first in parse_fns.
ParseFnC1ControlFirst(i, chars) ==
    CASE i = 1 -> parse_c1_control(chars)
      [] i = 2 -> parse_control_string(chars)
      [] i = 3 -> parse_independent_control_function(chars)
      [] i = 4 -> parse_control_sequence(chars)
      [] i = 5 -> parse_c0_control(chars)
      [] i = 6 -> parse_text(chars)
      [] i = 7 -> parse_unknown(chars)

\* the i-th entry of parse_fns applied to chars
ParseFn(i, chars) ==
    CASE i = 1 -> parse_control_string(chars)
      [] i = 2 -> parse_independent_control_function(chars)
      [] i = 3 -> parse_control_sequence(chars)
      [] i = 4 -> parse_c1_control(chars)
      [] i = 5 -> parse_c0_control(chars)
      [] i = 6 -> parse_text(chars)
      [] i = 7 -> parse_unknown(chars)

\* Mutation of ParseFrom: parse_fns ends with parse_text.
RECURSIVE ParseFromWithoutUnknown(_, _)
ParseFromWithoutUnknown(i, chars) ==
    IF i > 6 THEN [tag |-> "Unreachable"]
    ELSE Let(ParseFn(i, chars), LAMBDA r :
             IF r.tag = "Match" THEN [tag |-> "Match", chars |-> r.chars, node |-> r.val]
             ELSE IF r.tag = "Indeterminate" THEN [tag |-> "Indeterminate"]
             ELSE ParseFromWithoutUnknown(i + 1, chars))

\* the `for` loop of Node::parse from entry i on; "Unreachable" is the
\* unreachable!() after the loop
RECURSIVE ParseFrom(_, _)
ParseFrom(i, chars) ==
    IF i > 7 THEN [tag |-> "Unreachable"]
    ELSE Let(ParseFn(i, chars), LAMBDA r :
             IF r.tag = "Match" THEN [tag |-> "Match", chars |-> r.chars, node |-> r.val]
             ELSE IF r.tag = "Indeterminate" THEN [tag |-> "Indeterminate"]
             ELSE ParseFrom(i + 1, chars))

\* Node::parse : NodeParseResult
parse(chars) == ParseFrom(1, chars)

\* ------------------------------------------------------------------------
\* data.rs.  A DataComponent is [lines, active_position, panicked, panic_at]; a Line
\* is the sequence of its cells, a Cell is its grapheme : Option<String>.
\* An operation that panics leaves the record as it found it, flagged, with
\* the place of the panic in panic_at.
\* ------------------------------------------------------------------------
DataNew ==
    [lines |-> << <<None>> >>,
     active_position |-> [row |-> 0, col |-> 0],
     panicked |-> FALSE,
     panic_at |-> ""]

Panic(d, at) == [d EXCEPT !.panicked = TRUE, !.panic_at = at]

\* the index checks of lines[row] and cells[col]
RowInBounds(d) == d.active_position.row < Len(d.lines)
CellInBounds(d) ==
    /\ RowInBounds(d)
    /\ d.active_position.col < Len(d.lines[d.active_position.row + 1])

get_active_line(d) == d.lines[d.active_position.row + 1]
get_active_cell(d) == get_active_line(d)[d.active_position.col + 1]

\* *get_active_cell_mut() = cell
SetActiveCell(d, cell) ==
    [d EXCEPT !.lines[d.active_position.row + 1][d.active_position.col + 1] = cell]

\* Mutation of activate_next_cell: the cursor moves without a cell being added.
activate_next_cell_without_push(d) ==
    LET col == d.active_position.col + 1
    IN  IF ~RowInBounds(d) THEN Panic(d, "get_active_line")
        ELSE IF ~(col <= Len(get_active_line(d))) THEN Panic(d, "activate_next_cell assert")
        ELSE [d EXCEPT !.active_position.col = col]

activate_next_cell(d) ==
    LET col == d.active_position.col + 1
    IN  IF ~RowInBounds(d) THEN Panic(d, "get_active_line")
        ELSE IF ~(col <= Len(get_active_line(d))) THEN Panic(d, "activate_next_cell assert")
        ELSE [d EXCEPT !.active_position.col = col,
                       !.lines[d.active_position.row + 1] =
                           IF col = Len(@) THEN Append(@, None) ELSE @]

activate_prev_cell(d) ==
    [d EXCEPT !.active_position.col = IF @ > 0 THEN @ - 1 ELSE 0]

activate_next_line(d) ==
    LET row == d.active_position.row + 1
    IN  IF ~(row <= Len(d.lines)) THEN Panic(d, "activate_next_line assert")
        ELSE [d EXCEPT !.active_position = [row |-> row, col |-> 0],
                       !.lines = IF row = Len(@) THEN Append(@, <<None>>) ELSE @]

\* Mutation of activate_prev_line: the column is kept.
activate_prev_line_keeps_col(d) ==
    [d EXCEPT !.active_position.row = IF @ > 0 THEN @ - 1 ELSE 0]

activate_prev_line(d) ==
    [d EXCEPT !.active_position =
        [row |-> IF @.row > 0 THEN @.row - 1 ELSE 0, col |-> 0]]

activate_first_cell(d) == [d EXCEPT !.active_position.col = 0]

\* Mutation of erase_in_line: mode "0" truncates at the cursor, losing its cell.
erase_in_line_truncates_at_cursor(d, n) ==
    IF n = Some(<<48>>) \/ n = None
    THEN [d EXCEPT !.lines[d.active_position.row + 1] =
             IF d.active_position.col < Len(@) THEN Take(@, d.active_position.col) ELSE @]
    ELSE IF n = Some(<<49>>)
    THEN [d EXCEPT !.lines[d.active_position.row + 1] = [i \in 1..Len(@) |-> None]]
    ELSE IF n = Some(<<50>>)
    THEN [d EXCEPT !.lines[d.active_position.row + 1] = <<>>]
    ELSE d

\* n : Option<&str>
erase_in_line(d, n) ==
    IF n = Some(<<48>>) \/ n = None
    THEN IF ~RowInBounds(d) THEN Panic(d, "get_active_line_mut")
         ELSE LET current_length == d.active_position.col + 1
              IN  [d EXCEPT !.lines[d.active_position.row + 1] =
                      IF current_length < Len(@) THEN Take(@, current_length) ELSE @]
    ELSE IF n = Some(<<49>>)
    THEN IF ~RowInBounds(d) THEN Panic(d, "get_active_line_mut")
         ELSE [d EXCEPT !.lines[d.active_position.row + 1] =
                  [i \in 1..Len(@) |-> None]]
    ELSE IF n = Some(<<50>>)
    THEN IF ~RowInBounds(d) THEN Panic(d, "get_active_line_mut")
         ELSE [d EXCEPT !.lines[d.active_position.row + 1] = <<>>]
    ELSE d

\* str::parse::<usize>: an optional '+', then one or more decimal digits
\* (the value stays far below usize::MAX for the strings of the model)
RECURSIVE DigitsValue(_, _)
DigitsValue(s, acc) ==
    IF s = <<>> THEN acc ELSE DigitsValue(Tail(s), acc * 10 + (Head(s) - 48))

\* Mutation of ParseUsize: the leading digits are the value, whatever follows.
ParseUsizeLeadingDigits(s) ==
    LET k == CHOOSE k \in 0..Len(s) :
                 /\ \A i \in 1..k : s[i] \in 48..57
                 /\ (k = Len(s) \/ s[k + 1] \notin 48..57)
    IN  IF k > 0 THEN Some(DigitsValue(Take(s, k), 0)) ELSE None

ParseUsize(s) ==
    LET digits == IF s # <<>> /\ Head(s) = 43 THEN Tail(s) ELSE s
    IN  IF digits # <<>> /\ \A i \in 1..Len(digits) : digits[i] \in 48..57
        THEN Some(DigitsValue(digits, 0))
        ELSE None

\* n : &str
delete_character(d, n) ==
    LET parsed == ParseUsize(n)
    IN  IF IsSome(parsed)
        THEN LET i == d.active_position.col + 1
                 end == i + Unwrap(parsed)
             IN  IF ~RowInBounds(d) THEN Panic(d, "get_active_line_mut")
                 ELSE IF end > Len(get_active_line(d)) THEN Panic(d, "splice")
                 ELSE [d EXCEPT !.lines[d.active_position.row + 1] =
                          Take(@, i) \o Drop(@, end)]
        ELSE d

\* str::trim_end
RECURSIVE trim_end(_)
trim_end(s) ==
    IF s # <<>> /\ is_whitespace(s[Len(s)]) THEN trim_end(Take(s, Len(s) - 1)) ELSE s

\* the inner `for` of render over the cells of one line
RECURSIVE RenderCells(_, _, _, _, _)
RenderCells(d, cells, row_index, col_index, result) ==
    IF col_index >= Len(cells) THEN result
    ELSE LET cell == cells[col_index + 1]
             shown == result \o (IF IsSome(cell) THEN Unwrap(cell) ELSE <<SPACE>>)
             marked ==
                 IF row_index = d.active_position.row
                    /\ col_index = d.active_position.col
                 THEN Append(shown, CURSOR_MARK) ELSE shown
         IN  RenderCells(d, cells, row_index, col_index + 1, marked)

\* the outer `for` of render; row_index counts from the first rendered line
RECURSIVE RenderLines(_, _, _, _)
RenderLines(d, skip, row_index, result) ==
    IF skip + row_index >= Len(d.lines) THEN result
    ELSE LET line == d.lines[skip + row_index + 1]
             r == RenderCells(d, line, row_index, 0, result)
         IN  RenderLines(d, skip, row_index + 1, Append(trim_end(r), 10))

render(d, max_lines) ==
    LET skip == IF Len(d.lines) > max_lines THEN Len(d.lines) - max_lines ELSE 0
    IN  Let(RenderLines(d, skip, 0, <<>>), LAMBDA result :
            IF result = <<>> THEN result ELSE Take(result, Len(result) - 1))

\* the `for grapheme in graphemes` loop of write_text
RECURSIVE WriteGraphemes(_, _)
WriteGraphemes(d, gs) ==
    IF gs = <<>> THEN d
    ELSE Let(activate_next_cell(d), LAMBDA d1 :
             IF d1.panicked THEN d1
             ELSE IF ~CellInBounds(d1) THEN Panic(d1, "get_active_cell_mut")
             ELSE WriteGraphemes(SetActiveCell(d1, Some(Head(gs))), Tail(gs)))

\* Mutation of write_text: the text is not combined with the grapheme the
\* active cell holds.
write_text_without_merge(d, text) ==
    IF ~CellInBounds(d) THEN Panic(d, "get_active_cell")
    ELSE Let(graphemes(text), LAMBDA gs :
             IF gs = <<>> THEN d
             ELSE WriteGraphemes(SetActiveCell(d, Some(Head(gs))), Tail(gs)))

\* Mutation of write_text: a text written to a cell that holds a grapheme
\* starts in the next cell.
write_text_in_next_cell(d, text) ==
    IF ~CellInBounds(d) THEN Panic(d, "get_active_cell")
    ELSE IF IsSome(get_active_cell(d)) THEN WriteGraphemes(d, graphemes(text))
    ELSE Let(graphemes(text), LAMBDA gs :
             IF gs = <<>> THEN d
             ELSE WriteGraphemes(SetActiveCell(d, Some(Head(gs))), Tail(gs)))

write_text(d, text) ==
    IF ~CellInBounds(d) THEN Panic(d, "get_active_cell")
    ELSE LET cell == get_active_cell(d)
             combined_text == (IF IsSome(cell) THEN Unwrap(cell) ELSE <<>>) \o text
         IN  Let(graphemes(combined_text), LAMBDA gs :
             IF gs = <<>> THEN d
             ELSE WriteGraphemes(SetActiveCell(d, Some(Head(gs))), Tail(gs)))

\* Mutation of write_node: CSI C moves the cursor whatever its parameters.
write_node_cuf_with_parameters(d, node) ==
    IF node.kind = "Text" THEN write_text(d, node.text)
    ELSE IF node.kind = "C0Control" /\ node.ch = 8 THEN activate_prev_cell(d)
    ELSE IF node.kind = "C0Control" /\ node.ch = 10 THEN activate_next_line(d)
    ELSE IF node.kind = "C0Control" /\ node.ch = 13 THEN activate_first_cell(d)
    ELSE IF node.kind = "C1Control" /\ node.ch = 69 THEN activate_first_cell(d)
    ELSE IF node.kind = "C1Control" /\ node.ch = 77 THEN activate_prev_line(d)
    ELSE IF node.kind = "ControlSequence" /\ node.final_byte = 67
    THEN activate_next_cell(d)
    ELSE IF node.kind = "ControlSequence" /\ node.final_byte = 75
    THEN erase_in_line(d, node.parameter_bytes)
    ELSE IF /\ node.kind = "ControlSequence"
            /\ IsSome(node.parameter_bytes)
            /\ node.intermediate_bytes = None
            /\ node.final_byte = 80
    THEN delete_character(d, Unwrap(node.parameter_bytes))
    ELSE d

write_node(d, node) ==
    IF node.kind = "Text" THEN write_text(d, node.text)
    ELSE IF node.kind = "C0Control" /\ node.ch = 8 THEN activate_prev_cell(d)
    ELSE IF node.kind = "C0Control" /\ node.ch = 10 THEN activate_next_line(d)
    ELSE IF node.kind = "C0Control" /\ node.ch = 13 THEN activate_first_cell(d)
    ELSE IF node.kind = "C1Control" /\ node.ch = 69 THEN activate_first_cell(d)
    ELSE IF node.kind = "C1Control" /\ node.ch = 77 THEN activate_prev_line(d)
    ELSE IF /\ node.kind = "ControlSequence"
            /\ node.parameter_bytes = None
            /\ node.intermediate_bytes = None
            /\ node.final_byte = 67
    THEN activate_next_cell(d)
    ELSE IF node.kind = "ControlSequence" /\ node.final_byte = 75
    THEN erase_in_line(d, node.parameter_bytes)
    ELSE IF /\ node.kind = "ControlSequence"
            /\ IsSome(node.parameter_bytes)
            /\ node.intermediate_bytes = None
            /\ node.final_byte = 80
    THEN delete_character(d, Unwrap(node.parameter_bytes))
    ELSE d

\* ------------------------------------------------------------------------
\* Translator::write_buffer_to_data and Translator::write.  The pair of a
\* translator and the grid it writes to is [t, d].
\* ------------------------------------------------------------------------
\* Mutation of DrainLoop: one node is written, what follows it stays pending.
DrainLoopWritesOneNode(chars, d) ==
    Let(parse(chars), LAMBDA r :
        IF r.tag = "Match" THEN [chars |-> r.chars, d |-> write_node(d, r.node)]
        ELSE IF r.tag = "Indeterminate" THEN [chars |-> chars, d |-> d]
        ELSE [chars |-> chars, d |-> Panic(d, "unreachable")])

\* the `while let Match(..) = Node::parse(chars.clone())` loop
RECURSIVE DrainLoop(_, _)
DrainLoop(chars, d) ==
    Let(parse(chars), LAMBDA r :
        IF r.tag = "Match"
        THEN Let(write_node(d, r.node), LAMBDA d1 :
                 IF d1.panicked THEN [chars |-> chars, d |-> d1]
                 ELSE DrainLoop(r.chars, d1))
        ELSE IF r.tag = "Indeterminate" THEN [chars |-> chars, d |-> d]
        ELSE [chars |-> chars, d |-> Panic(d, "unreachable")])

\* Mutation of write_buffer_to_data: the text stays in text_buffer, consumed or not.
write_buffer_to_data_keeps_text(t, d) ==
    Let(DrainLoop(t.text_buffer, d), LAMBDA r :
        IF r.d.panicked THEN [t |-> [t EXCEPT !.panicked = TRUE], d |-> r.d]
        ELSE [t |-> t, d |-> r.d])

write_buffer_to_data(t, d) ==
    Let(DrainLoop(t.text_buffer, d), LAMBDA r :
        IF r.d.panicked THEN [t |-> [t EXCEPT !.panicked = TRUE], d |-> r.d]
        ELSE [t |-> [t EXCEPT !.text_buffer = r.chars], d |-> r.d])

write(t, d, input) ==
    Let(read_bytes_to_buffer(t, input), LAMBDA t1 :
        IF t1.panicked THEN [t |-> t1, d |-> Panic(d, "try_complete")]
        ELSE write_buffer_to_data(t1, d))

\* ------------------------------------------------------------------------
\* State machine 1 (Spec): one Translator and its grid, fed by write calls.
\* The bytes of one run come from one of the alphabets below.
\* ------------------------------------------------------------------------
Alphabets ==
    { {97, 208, 163, 255, 204, 129},    \* a, U+0423 = D0 A3, U+0301 = CC 81, FF
      {226, 130, 172, 240, 159},        \* U+20AC = E2 82 AC, F0 9F 82 AC
      {97, 27, 91, 50, 75, 10},         \* a ESC [ 2 K LF
      {97, 27, 91, 49, 80, 67},         \* a ESC [ 1 P C
      {97, 8, 13, 27, 77, 69} }         \* a BS CR ESC M E

Data ==
    [lines |-> lines, active_position |-> active_position, panicked |-> panicked,
     panic_at |-> panic_at]
Trans == [text_buffer |-> text_buffer, incomplete |-> incomplete, panicked |-> panicked]

\* no Node::parse call has returned yet
NotParsed == [tag |-> "NotParsed"]

Init ==
    /\ lines = DataNew.lines
    /\ active_position = DataNew.active_position
    /\ panicked = FALSE
    /\ panic_at = ""
    /\ text_buffer = TranslatorNew.text_buffer
    /\ incomplete = TranslatorNew.incomplete
    /\ fed = <<>>
    /\ op = [name |-> "new", arg |-> <<>>]
    /\ pre = DataNew
    /\ parse_result = NotParsed
    /\ rendered = <<>>

\* translator.write(chunk, &mut data)
Write(chunk) ==
    /\ ~panicked
    /\ \E r \in {write(Trans, Data, chunk)} :
           /\ lines' = r.d.lines
           /\ active_position' = r.d.active_position
           /\ panicked' = r.d.panicked
           /\ panic_at' = r.d.panic_at
           /\ text_buffer' = r.t.text_buffer
           /\ incomplete' = r.t.incomplete
    /\ fed' = fed \o chunk
    /\ op' = [name |-> "write", arg |-> chunk]
    /\ pre' = Data
    /\ UNCHANGED <<parse_result, rendered>>

Next ==
    \E A \in Alphabets :
        /\ Range(fed) \subseteq A
        /\ \E n \in 0..(MaxFed - Len(fed)) : \E chunk \in [1..n -> A] : Write(chunk)

Spec == Init /\ [][Next]_vars

\* ------------------------------------------------------------------------
\* State machine 2 (GridSpec): the grid operations write_node dispatches
\* to, applied to a DataComponent::new() in any order.
\* ------------------------------------------------------------------------
TextChars == {97}
Texts == UNION {[1..n -> TextChars] : n \in 1..2}
EraseParams == {None, Some(<<48>>), Some(<<49>>), Some(<<50>>), Some(<<51>>)}
DeleteParams == {<<48>>, <<49>>, <<50>>, <<59>>, <<49, 59>>}

WithinBounds(d, cols) ==
    /\ Len(d.lines) <= MaxRows
    /\ \A r \in 1..Len(d.lines) : Len(d.lines[r]) <= cols

\* the grid, of lines of at most `cols` cells, becomes d1 by the operation
\* `name` with argument `arg`
ApplyWithin(cols, d1, name, arg) ==
    /\ ~panicked
    /\ WithinBounds(d1, cols)
    /\ lines' = d1.lines
    /\ active_position' = d1.active_position
    /\ panicked' = d1.panicked
    /\ panic_at' = d1.panic_at
    /\ op' = [name |-> name, arg |-> arg]
    /\ pre' = Data
    /\ UNCHANGED <<text_buffer, incomplete, fed, parse_result, rendered>>

Apply(d1, name, arg) == ApplyWithin(MaxCols, d1, name, arg)

ActivateNextCell == Apply(activate_next_cell(Data), "activate_next_cell", <<>>)
ActivatePrevCell == Apply(activate_prev_cell(Data), "activate_prev_cell", <<>>)
ActivateNextLine == Apply(activate_next_line(Data), "activate_next_line", <<>>)
ActivatePrevLine == Apply(activate_prev_line(Data), "activate_prev_line", <<>>)
ActivateFirstCell == Apply(activate_first_cell(Data), "activate_first_cell", <<>>)
EraseInLine(n) == Apply(erase_in_line(Data, n), "erase_in_line", n)
DeleteCharacter(n) == Apply(delete_character(Data, n), "delete_character", n)
WriteText(text) == Apply(write_node(Data, Text(text)), "write_text", text)

GridNext ==
    \/ ActivateNextCell
    \/ ActivatePrevCell
    \/ ActivateNextLine
    \/ ActivatePrevLine
    \/ ActivateFirstCell
    \/ \E n \in EraseParams : EraseInLine(n)
    \/ \E n \in DeleteParams : DeleteCharacter(n)
    \/ \E text \in Texts : WriteText(text)

GridSpec == Init /\ [][GridNext]_vars

\* ------------------------------------------------------------------------
\* State machine 3 (EraseSpec): lines of five cells written with "abcde",
\* the cursor moved back and on to the next line, lines erased.
\* ------------------------------------------------------------------------
ExampleText == <<97, 98, 99, 100, 101>>

WriteExample ==
    ApplyWithin(MaxWide, write_node(Data, Text(ExampleText)), "write_text", ExampleText)
RetreatColumn ==
    ApplyWithin(MaxWide, write_node(Data, C0Control(8)), "activate_prev_cell", <<>>)
AdvanceRow ==
    ApplyWithin(MaxWide, write_node(Data, C0Control(10)), "activate_next_line", <<>>)
EraseLine(n) ==
    ApplyWithin(MaxWide, write_node(Data, ControlSequence(n, None, 75)), "erase_in_line", n)

EraseNext ==
    \/ WriteExample
    \/ RetreatColumn
    \/ AdvanceRow
    \/ \E n \in EraseParams : EraseLine(n)

EraseSpec == Init /\ [][EraseNext]_vars

\* ------------------------------------------------------------------------
\* State machine 4 (NodeSpec): write_node applied to nodes of every kind,
\* those it dispatches and those it ignores.
\* ------------------------------------------------------------------------
Nodes ==
    {Text(<<97>>)}
    \cup {C0Control(ch) : ch \in {8, 9, 10}}
    \cup {C1Control(ch) : ch \in {64, 77}}
    \cup {ControlSequence(p, i, f) :
              p \in {None, Some(<<49>>)}, i \in {None, Some(<<33>>)}, f \in {67, 80}}
    \cup {ControlSequence(None, None, 75), ControlSequence(Some(<<49>>), None, 75),
          ControlSequence(None, None, 109)}
    \cup {IndependentControlFunction(99), ControlString(OSC, <<97>>), Unknown(127)}

\* data.write_node(&node)
WriteNode(node) == Apply(write_node(Data, node), "write_node", node)

NodeNext == \E node \in Nodes : WriteNode(node)

NodeSpec == Init /\ [][NodeNext]_vars

\* ------------------------------------------------------------------------
\* State machine 5 (ParseSpec): Node::parse applied to a pending text, as
\* the `while let` loop of write_buffer_to_data applies it: a Match leaves
\* the remaining characters pending.  The pending text is any string of up
\* to MaxInput characters of one alphabet, or one of the longer examples.
\* ------------------------------------------------------------------------
ParseAlphabets ==
    { {27, 91, 48, 33, 109, 97},     \* ESC [ 0 ! m a
      {27, 93, 80, 7, 92, 97},       \* ESC ] P BEL \ a
      {27, 91, 77, 99, 127, 10} }    \* ESC [ M c DEL LF

\* "\x1B[0;1;2!mREST", "\x1B]0;Hello\x07world" and "Hello, world"
ParseExamples ==
    { <<27, 91, 48, 59, 49, 59, 50, 33, 109, 82, 69, 83, 84>>,
      <<27, 93, 48, 59, 72, 101, 108, 108, 111, 7, 119, 111, 114, 108, 100>>,
      <<72, 101, 108, 108, 111, 44, 32, 119, 111, 114, 108, 100>> }

ParseInputs ==
    UNION {[1..n -> A] : n \in 0..MaxInput, A \in ParseAlphabets} \cup ParseExamples

ParseInit ==
    /\ lines = DataNew.lines
    /\ active_position = DataNew.active_position
    /\ panicked = FALSE
    /\ panic_at = ""
    /\ text_buffer \in ParseInputs
    /\ incomplete = TranslatorNew.incomplete
    /\ fed = <<>>
    /\ op = [name |-> "new", arg |-> <<>>]
    /\ pre = DataNew
    /\ parse_result = NotParsed
    /\ rendered = <<>>

\* Node::parse(chars.clone()); on a Match, chars = remaining_chars
ParseStep ==
    /\ \E r \in {parse(text_buffer)} :
           /\ parse_result' = r
           /\ text_buffer' = IF r.tag = "Match" THEN r.chars ELSE text_buffer
    /\ op' = [name |-> "parse", arg |-> text_buffer]
    /\ UNCHANGED <<lines, active_position, panicked, panic_at, incomplete, fed, pre, rendered>>

ParseNext == ParseStep

ParseSpec == ParseInit /\ [][ParseNext]_vars

\* ------------------------------------------------------------------------
\* State machine 6 (DecodeSpec): read_bytes_to_buffer calls on one
\* Translator whose text_buffer is never drained, so that it holds all the
\* text decoded so far.
\* ------------------------------------------------------------------------
DecodeAlphabets ==
    { {97, 208, 163, 255, 204, 129},    \* a, U+0423 = D0 A3, U+0301 = CC 81, FF
      {97, 226, 130, 172, 240, 159},    \* U+20AC = E2 82 AC, F0 9F 82 AC
      {97, 224, 159, 160, 237, 128} }   \* E0 and ED with second bytes in and out of range

\* translator.read_bytes_to_buffer(chunk)
ReadBytes(chunk) ==
    /\ ~panicked
    /\ \E t \in {read_bytes_to_buffer(Trans, chunk)} :
           /\ text_buffer' = t.text_buffer
           /\ incomplete' = t.incomplete
           /\ panicked' = t.panicked
           /\ panic_at' = IF t.panicked THEN "try_complete" ELSE panic_at
    /\ fed' = fed \o chunk
    /\ op' = [name |-> "read_bytes_to_buffer", arg |-> chunk]
    /\ UNCHANGED <<lines, active_position, pre, parse_result, rendered>>

DecodeNext ==
    \E A \in DecodeAlphabets :
        /\ Range(fed) \subseteq A
        /\ \E n \in 0..(MaxFed - Len(fed)) : \E chunk \in [1..n -> A] : ReadBytes(chunk)

DecodeSpec == Init /\ [][DecodeNext]_vars

\* ------------------------------------------------------------------------
\* State machine 7 (TextSpec): Text nodes of letters and combining marks and
\* line feeds written to one grid; `fed` holds the characters written so far.
\* ------------------------------------------------------------------------
MarkChars == {97, 98, 769}    \* a, b, U+0301 COMBINING ACUTE ACCENT
TextNodes == {Text(text) : text \in UNION {[1..n -> MarkChars] : n \in 1..2}}

\* data.write_node(&node) of a Text or C0Control node, `written` its characters
WriteChars(node, written) ==
    /\ ~panicked
    /\ Len(fed) + Len(written) <= MaxText
    /\ \E d1 \in {write_node(Data, node)} :
           /\ WithinBounds(d1, MaxWide)
           /\ lines' = d1.lines
           /\ active_position' = d1.active_position
           /\ panicked' = d1.panicked
           /\ panic_at' = d1.panic_at
    /\ op' = [name |-> "write_node", arg |-> node]
    /\ pre' = Data
    /\ fed' = fed \o written
    /\ UNCHANGED <<text_buffer, incomplete, parse_result, rendered>>

WriteTextNode(node) == WriteChars(node, node.text)
WriteLineFeed == WriteChars(C0Control(10), <<10>>)

TextNext ==
    \/ \E node \in TextNodes : WriteTextNode(node)
    \/ WriteLineFeed

TextSpec == Init /\ [][TextNext]_vars

\* ------------------------------------------------------------------------
\* State machine 8 (RenderSpec): a grid of up to MaxTall lines drawn on by
\* "a", LF, ESC M and CSI C, and rendered with windows of every height.
\* ------------------------------------------------------------------------
DrawNodes ==
    {Text(<<97>>), C0Control(10), C1Control(77), ControlSequence(None, None, 67)}

\* data.write_node(&node)
Draw(node) ==
    /\ ~panicked
    /\ \E d1 \in {write_node(Data, node)} :
           /\ Len(d1.lines) <= MaxTall
           /\ \A r \in 1..Len(d1.lines) : Len(d1.lines[r]) <= MaxCols
           /\ lines' = d1.lines
           /\ active_position' = d1.active_position
           /\ panicked' = d1.panicked
           /\ panic_at' = d1.panic_at
    /\ op' = [name |-> "write_node", arg |-> node]
    /\ pre' = Data
    /\ rendered' = <<>>
    /\ UNCHANGED <<text_buffer, incomplete, fed, parse_result>>

\* data.render(max_lines)
Render(max_lines) ==
    /\ ~panicked
    /\ rendered' = render(Data, max_lines)
    /\ op' = [name |-> "render", arg |-> max_lines]
    /\ pre' = Data
    /\ UNCHANGED <<lines, active_position, panicked, panic_at, text_buffer, incomplete, fed,
                   parse_result>>

RenderNext ==
    \/ \E node \in DrawNodes : Draw(node)
    \/ \E max_lines \in 0..MaxTall : Render(max_lines)

RenderSpec == Init /\ [][RenderNext]_vars

\* ------------------------------------------------------------------------
\* State machine 9 (PendingSpec): one Translator and its grid, fed by write
\* calls with control strings and their terminators, or with text, LF,
\* DEL and ESC.
\* ------------------------------------------------------------------------
PendingAlphabets ==
    { {27, 93, 7, 92, 97},       \* ESC ] BEL \ a
      {27, 10, 127, 97} }        \* ESC LF DEL a

PendingNext ==
    \E A \in PendingAlphabets :
        /\ Range(fed) \subseteq A
        /\ \E n \in 0..(MaxSent - Len(fed)) : \E chunk \in [1..n -> A] : Write(chunk)

PendingSpec == Init /\ [][PendingNext]_vars

\* ------------------------------------------------------------------------
\* Properties
\* ------------------------------------------------------------------------
Origin == [row |-> 0, col |-> 0]

\* the bytes are well-formed UTF-8 / the text they encode
IsUtf8(bytes) == from_utf8(bytes).ok
TextOf(bytes) == from_utf8(bytes).text
NoControl(text) == \A i \in 1..Len(text) : ~is_control(text[i])
Printable(text) ==
    \A i \in 1..Len(text) : ~is_control(text[i]) /\ ~is_whitespace(text[i])
\* every character starts a grapheme cluster of its own
SingleCell(text) ==
    \A i \in 1..Len(text) : ~is_control(text[i]) /\ ~IsGraphemeExtend(text[i])
\* the characters held by the cells of a line, in order (a blank cell holds none)
LineContent(line) ==
    Flatten([c \in 1..Len(line) |-> IF IsSome(line[c]) THEN Unwrap(line[c]) ELSE <<>>])

\* C1: however the bytes written so far were split into write calls, the grid
\* (cells, cursor, and so its render) is the one a single write of all of
\* them leaves on a fresh Translator and grid.
ChunkingInvariance ==
    LET whole == write(TranslatorNew, DataNew, fed).d
    IN  /\ lines = whole.lines
        /\ active_position = whole.active_position
        /\ panicked = whole.panicked
        /\ render(Data, 10) = render(whole, 10)

\* C1 witness: ESC [ 2 K delivered as ESC [ and 2 K; the line has been erased
ChunkingInvarianceWitness ==
    /\ op.name = "write"
    /\ op.arg = <<50, 75>>
    /\ fed = <<ESC, 91, 50, 75>>
    /\ lines = << <<>> >>

\* C2 (as claimed): no grid operation fails an index into the line/cell
\* buffers or an assertion of activate_next_cell / activate_next_line.
GridOperationsStayInBounds ==
    panic_at \notin {"get_active_line", "get_active_line_mut", "get_active_cell",
                     "get_active_cell_mut", "activate_next_cell assert",
                     "activate_next_line assert"}

\* C3 (as claimed): the grid always has at least one line and at least one cell.
AtLeastOneLineAndCell ==
    /\ Len(lines) >= 1
    /\ \E r \in 1..Len(lines) : Len(lines[r]) >= 1

\* C4 (as claimed): the cursor row is an existing line and the cursor column
\* is at most the length of that line.
CursorIsValid ==
    /\ active_position.row < Len(lines)
    /\ active_position.col <= Len(lines[active_position.row + 1])

\* C5 (as claimed): one write of printable text to a fresh Translator and
\* grid, then render(10), gives exactly that text.
TextRoundTrip ==
    (/\ op.name = "write"
     /\ op.arg = fed
     /\ fed # <<>>
     /\ IsUtf8(fed)
     /\ Printable(TextOf(fed)))
    => render(Data, 10) = TextOf(fed)

\* C6: after text of k >= 1 single-cell grapheme clusters has been written to
\* a fresh grid the cursor is at row 0, column k - 1, and the only line has
\* exactly k cells.
CursorOnLastWrittenCell ==
    (/\ op.name = "write"
     /\ fed # <<>>
     /\ IsUtf8(fed)
     /\ SingleCell(TextOf(fed)))
    => /\ ~panicked
       /\ active_position = [row |-> 0, col |-> Len(TextOf(fed)) - 1]
       /\ Len(lines) = 1
       /\ Len(lines[1]) = Len(TextOf(fed))

\* C6 witness: "a", U+0423, "a" written (3 clusters from 4 bytes), cursor on column 2
CursorOnLastWrittenCellWitness ==
    /\ op.name = "write"
    /\ fed = <<97, 208, 163, 97>>
    /\ active_position = [row |-> 0, col |-> 2]
    /\ Len(lines[1]) = 3

\* C7 (as claimed): with D0 and A3 delivered in two writes, render(10) is empty
\* after the first and the one decoded character after the second, the
\* cursor at (0,0) both times.
SplitCodePointRender ==
    /\ (op.name = "write" /\ fed = <<208>>)
       => (render(Data, 10) = <<>> /\ active_position = Origin)
    /\ (op.name = "write" /\ op.arg = <<163>> /\ fed = <<208, 163>>)
       => (render(Data, 10) = <<1059>> /\ active_position = Origin)

\* C8: a write of the invalid byte FF to a fresh Translator and grid does not
\* panic and puts one U+FFFD into the grid; valid text written after it is
\* all there, in order, right after that U+FFFD, and nothing is held back.
InvalidByteRecovery ==
    (/\ op.name = "write"
     /\ fed # <<>>
     /\ fed[1] = 255
     /\ IsUtf8(Tail(fed))
     /\ NoControl(TextOf(Tail(fed))))
    => /\ ~panicked
       /\ Len(lines) = 1
       /\ \A c \in 1..Len(lines[1]) : IsSome(lines[1][c])
       /\ LineContent(lines[1]) = <<REPLACEMENT_CHARACTER>> \o TextOf(Tail(fed))
       /\ text_buffer = <<>>
       /\ incomplete = <<>>

\* C8 witness: FF written alone, then "a" and U+0423 in a second write
InvalidByteRecoveryWitness ==
    /\ op.name = "write"
    /\ op.arg = <<97, 208, 163>>
    /\ fed = <<255, 97, 208, 163>>
    /\ lines = << <<Some(<<REPLACEMENT_CHARACTER>>), Some(<<97>>), Some(<<1059>>)>> >>

\* C9 (as claimed): activate_prev_cell at column 0 and activate_prev_line at
\* row 0 leave the position, row and column, unchanged.
RetreatAtBoundsNoOp ==
    /\ (op.name = "activate_prev_cell" /\ pre.active_position.col = 0)
       => active_position = pre.active_position
    /\ (op.name = "activate_prev_line" /\ pre.active_position.row = 0)
       => active_position = pre.active_position

\* C9 (amended): activate_prev_cell at column 0 leaves the position unchanged;
\* activate_prev_line at row 0 leaves the row at 0 and moves the cursor to
\* column 0; neither changes a line.
RetreatAtBoundsClamps ==
    /\ (op.name = "activate_prev_cell" /\ pre.active_position.col = 0)
       => (active_position = pre.active_position /\ lines = pre.lines /\ ~panicked)
    /\ (op.name = "activate_prev_line" /\ pre.active_position.row = 0)
       => (active_position = Origin /\ lines = pre.lines /\ ~panicked)

\* C9 witness: activate_prev_line at row 0, column 1 has moved the cursor to column 0
RetreatAtBoundsWitness ==
    /\ op.name = "activate_prev_line"
    /\ pre.active_position = [row |-> 0, col |-> 1]
    /\ active_position = Origin

\* C10: with the cursor on a cell of its line, erase_in_line("0") or (None)
\* leaves the cells up to and including the cursor's, erase_in_line("1")
\* leaves as many cells, all blank, erase_in_line("2") leaves no cell; the
\* other lines and the cursor are unchanged.
EraseInLineResults ==
    (/\ op.name = "erase_in_line"
     /\ op.arg \in {None, Some(<<48>>), Some(<<49>>), Some(<<50>>)}
     /\ CellInBounds(pre))
    => LET r == pre.active_position.row + 1
           line == pre.lines[r]
       IN  /\ ~panicked
           /\ active_position = pre.active_position
           /\ Len(lines) = Len(pre.lines)
           /\ \A q \in 1..Len(lines) : q # r => lines[q] = pre.lines[q]
           /\ op.arg \in {None, Some(<<48>>)}
              => lines[r] = Take(line, pre.active_position.col + 1)
           /\ op.arg = Some(<<49>>)
              => (Len(lines[r]) = Len(line) /\ \A c \in 1..Len(line) : lines[r][c] = None)
           /\ op.arg = Some(<<50>>) => lines[r] = <<>>

\* C10 witness: erase_in_line("0") on the line "abcde" with the cursor at
\* column 2, another line "abcde" above it: the line is left as "abc"
EraseInLineResultsWitness ==
    /\ op.name = "erase_in_line"
    /\ op.arg = Some(<<48>>)
    /\ pre.active_position = [row |-> 1, col |-> 2]
    /\ Len(pre.lines) = 2
    /\ pre.lines[2] = [c \in 1..5 |-> Some(<<ExampleText[c]>>)]
    /\ pre.lines[1] = pre.lines[2]
    /\ lines[2] = [c \in 1..3 |-> Some(<<ExampleText[c]>>)]
    /\ lines[1] = pre.lines[1]
    /\ active_position = pre.active_position

\* the number of leading characters of s that lie in lo..hi
RECURSIVE RunLength(_, _, _)
RunLength(s, lo, hi) ==
    IF s # <<>> /\ Head(s) \in lo..hi THEN 1 + RunLength(Tail(s), lo, hi) ELSE 0

\* an empty run is None, any other Some(run)
RunOption(run) == IF run = <<>> THEN None ELSE Some(run)

\* C11: for an input ESC [ P I F R (P the characters in 0x30..0x3F after
\* ESC [, I the characters in 0x20..0x2F after P, F a character in 0x40..0x7E)
\* Node::parse returns Match with ControlSequence{P or None, I or None, F}
\* and leaves exactly R.
ControlSequenceClassification ==
    (/\ op.name = "parse"
     /\ Len(op.arg) >= 2
     /\ op.arg[1] = ESC
     /\ op.arg[2] = 91)
    => LET after_csi == Drop(op.arg, 2)
           P == Take(after_csi, RunLength(after_csi, 48, 63))
           after_p == Drop(after_csi, Len(P))
           I == Take(after_p, RunLength(after_p, 32, 47))
           after_i == Drop(after_p, Len(I))
       IN  (after_i # <<>> /\ Head(after_i) \in 64..126)
           => parse_result =
                  [tag |-> "Match", chars |-> Tail(after_i),
                   node |-> ControlSequence(RunOption(P), RunOption(I), Head(after_i))]

\* C11 witness: "\x1B[0;1;2!mREST" parsed: "0;1;2", "!", 'm', rest "REST"
ControlSequenceClassificationWitness ==
    /\ op.name = "parse"
    /\ op.arg = <<27, 91, 48, 59, 49, 59, 50, 33, 109, 82, 69, 83, 84>>
    /\ parse_result.tag = "Match"
    /\ parse_result.node =
           ControlSequence(Some(<<48, 59, 49, 59, 50>>), Some(<<33>>), 109)
    /\ parse_result.chars = <<82, 69, 83, 84>>
    /\ text_buffer = <<82, 69, 83, 84>>

\* position k of s holds a terminator: BEL, or ESC followed by '\'
TerminatorAt(s, k) ==
    \/ s[k] = BEL
    \/ s[k] = ESC /\ k + 1 <= Len(s) /\ s[k + 1] = 92

\* C12: for an input ESC, opener (APC, DCS, OSC, PM or SOS), body, terminator,
\* R, the terminator being the first BEL or ESC '\' after the opener,
\* Node::parse returns Match with ControlString{opener, body} and leaves
\* exactly R; with no terminator before the end of the input it returns
\* Indeterminate.
ControlStringClassification ==
    (/\ op.name = "parse"
     /\ Len(op.arg) >= 2
     /\ op.arg[1] = ESC
     /\ op.arg[2] \in {APC, DCS, OSC, PM, SOS})
    => LET after_opener == Drop(op.arg, 2)
           terminators == {k \in 1..Len(after_opener) : TerminatorAt(after_opener, k)}
       IN  IF terminators = {}
           THEN parse_result = [tag |-> "Indeterminate"]
           ELSE LET k == CHOOSE t \in terminators : \A u \in terminators : t <= u
                    width == IF after_opener[k] = BEL THEN 1 ELSE 2
                IN  parse_result =
                        [tag |-> "Match", chars |-> Drop(after_opener, k - 1 + width),
                         node |-> ControlString(op.arg[2], Take(after_opener, k - 1))]

\* C12 witness: "\x1B]0;Hello\x07world" parsed: OSC, body "0;Hello", rest "world"
ControlStringClassificationWitness ==
    /\ op.name = "parse"
    /\ op.arg = <<27, 93, 48, 59, 72, 101, 108, 108, 111, 7, 119, 111, 114, 108, 100>>
    /\ parse_result.tag = "Match"
    /\ parse_result.node = ControlString(OSC, <<48, 59, 72, 101, 108, 108, 111>>)
    /\ parse_result.chars = <<119, 111, 114, 108, 100>>

\* C13 (as claimed): delete_character(n) with a numeric n completes, also
\* when n exceeds the number of cells to the right of the cursor.
DeleteCharacterCompletes ==
    (op.name = "delete_character" /\ IsSome(ParseUsize(op.arg))) => ~panicked

\* the decoding of the bytes v from position i on, each invalid sequence
\* giving one U+FFFD, up to the incomplete sequence the bytes end in
RECURSIVE LossyFrom(_, _, _)
LossyFrom(v, i, text) ==
    IF i > Len(v) THEN [text |-> text, residual |-> <<>>]
    ELSE Let(Utf8Next(v, i), LAMBDA c :
             IF c.kind = "ok" THEN LossyFrom(v, i + c.len, Append(text, c.cp))
             ELSE IF c.kind = "invalid"
             THEN LossyFrom(v, i + c.len, Append(text, REPLACEMENT_CHARACTER))
             ELSE [text |-> text, residual |-> Drop(v, i - 1)])

\* C14: after any sequence of read_bytes_to_buffer calls the text appended
\* so far is the decoding of all the bytes given, up to the carried
\* incomplete sequence, with one U+FFFD for each invalid sequence, and the
\* carried bytes are exactly the trailing incomplete sequence.
DecoderKeepsEveryByte ==
    op.name = "read_bytes_to_buffer"
    => /\ ~panicked
       /\ text_buffer = LossyFrom(fed, 1, <<>>).text
       /\ incomplete = LossyFrom(fed, 1, <<>>).residual

\* C14 witness: E2 82 carried, then AC F0: U+20AC decoded from three calls'
\* bytes, F0 carried
DecoderKeepsEveryByteWitness ==
    /\ op.name = "read_bytes_to_buffer"
    /\ op.arg = <<172, 240>>
    /\ fed = <<226, 130, 172, 240>>
    /\ text_buffer = <<8364>>
    /\ incomplete = <<240>>

\* the number of iterations of the `while let` loop of write_buffer_to_data
\* on the pending characters chars, counted up to limit
RECURSIVE DrainIterations(_, _)
DrainIterations(chars, limit) ==
    IF limit = 0 THEN 0
    ELSE Let(parse(chars), LAMBDA r :
             IF r.tag = "Match" THEN 1 + DrainIterations(r.chars, limit - 1) ELSE 0)

\* t is what is left of s once some characters (at least one) have been read
IsProperSuffix(t, s) == Len(t) < Len(s) /\ t = Drop(s, Len(s) - Len(t))

\* C15: every Match of Node::parse leaves strictly fewer characters than it
\* was given, and on the empty input the result is Indeterminate; so the
\* drain loop makes at most one iteration for each pending character.
DrainLoopConsumes ==
    op.name = "parse"
    => /\ parse_result.tag = "Match" => IsProperSuffix(parse_result.chars, op.arg)
       /\ op.arg = <<>> => parse_result.tag = "Indeterminate"
       /\ DrainIterations(op.arg, Len(op.arg) + 1) <= Len(op.arg)

\* C15 witness: LF matched from "\x0Ac", one character consumed, "c" pending
DrainLoopConsumesWitness ==
    /\ op.name = "parse"
    /\ op.arg = <<10, 99>>
    /\ parse_result = [tag |-> "Match", chars |-> <<99>>, node |-> C0Control(10)]
    /\ text_buffer = <<99>>

\* the nodes write_node acts on: Text; C0 BS, LF, CR; C1 0x45, 0x4D; CSI C
\* without parameters and intermediates; CSI K; CSI P with parameters
IsSupported(node) ==
    \/ node.kind = "Text"
    \/ node.kind = "C0Control" /\ node.ch \in {8, 10, 13}
    \/ node.kind = "C1Control" /\ node.ch \in {69, 77}
    \/ /\ node.kind = "ControlSequence"
       /\ \/ /\ node.final_byte = 67
             /\ node.parameter_bytes = None
             /\ node.intermediate_bytes = None
          \/ node.final_byte = 75
          \/ node.final_byte = 80 /\ IsSome(node.parameter_bytes)

\* C16: write_node with a node that is not one of the supported patterns
\* leaves every line, every cell and the cursor unchanged and does not fail.
UnsupportedNodesIgnored ==
    (op.name = "write_node" /\ ~IsSupported(op.arg))
    => /\ lines = pre.lines
       /\ active_position = pre.active_position
       /\ ~panicked

\* C16 witness: CSI 1 C (a parameter given) applied to a grid of two lines
\* with the cursor at (1,1): nothing has moved
UnsupportedNodesIgnoredWitness ==
    /\ op.name = "write_node"
    /\ op.arg = ControlSequence(Some(<<49>>), None, 67)
    /\ pre.active_position = [row |-> 1, col |-> 1]
    /\ Len(pre.lines) = 2
    /\ lines = pre.lines
    /\ active_position = pre.active_position

\* the number of leading characters of s that are not control characters
RECURSIVE TextRunLength(_)
TextRunLength(s) ==
    IF s # <<>> /\ ~is_control(Head(s)) THEN 1 + TextRunLength(Tail(s)) ELSE 0

\* C17 (as claimed): a run of non-control characters that reaches the end of
\* the input gives Indeterminate; a Text node is matched only when a control
\* character ends the run.
TextNeedsLookahead ==
    op.name = "parse"
    => /\ (op.arg # <<>> /\ TextRunLength(op.arg) = Len(op.arg))
          => parse_result.tag = "Indeterminate"
       /\ (parse_result.tag = "Match" /\ parse_result.node.kind = "Text")
          => (parse_result.chars # <<>> /\ is_control(Head(parse_result.chars)))

\* C17 (amended): an input that starts with a non-control character gives
\* Match with Text of the whole run of non-control characters, whether a
\* control character or the end of the input ends the run; what follows the
\* run is left.
TextMatchesAtEndOfInput ==
    (op.name = "parse" /\ TextRunLength(op.arg) > 0)
    => parse_result =
           [tag |-> "Match", chars |-> Drop(op.arg, TextRunLength(op.arg)),
            node |-> Text(Take(op.arg, TextRunLength(op.arg)))]

\* C17 witness: "a0m" parsed with nothing after it: Text("a0m"), nothing left
TextMatchesAtEndOfInputWitness ==
    /\ op.name = "parse"
    /\ op.arg = <<97, 48, 109>>
    /\ parse_result = [tag |-> "Match", chars |-> <<>>, node |-> Text(<<97, 48, 109>>)]
    /\ text_buffer = <<>>

\* C18: Node::parse returns Match or Indeterminate for every input and never
\* reaches unreachable!(); it returns Unknown(ch) only for a first character
\* that none of the six other alternatives matches (a control character
\* outside C0: 0x7F..0x9F) with none of them Indeterminate, and then ch is
\* that character and only it is consumed.
ParserIsTotal ==
    op.name = "parse"
    => /\ parse_result.tag \in {"Match", "Indeterminate"}
       /\ (parse_result.tag = "Match" /\ parse_result.node.kind = "Unknown")
          => /\ op.arg # <<>>
             /\ parse_result.node.ch = Head(op.arg)
             /\ parse_result.chars = Tail(op.arg)
             /\ Head(op.arg) \in 127..159
             /\ \A i \in 1..6 : ParseFn(i, op.arg).tag = "NoMatch"
       /\ (op.arg # <<>> /\ Head(op.arg) \in 127..159)
          => (parse_result.tag = "Match" /\ parse_result.node.kind = "Unknown")

\* C18 witness: DEL, LF parsed: Unknown(DEL), LF left
ParserIsTotalWitness ==
    /\ op.name = "parse"
    /\ op.arg = <<127, 10>>
    /\ parse_result = [tag |-> "Match", chars |-> <<10>>, node |-> Unknown(127)]

\* the node kinds in the order their alternatives are tried
KindOrder ==
    <<"ControlString", "IndependentControlFunction", "ControlSequence", "C1Control",
      "C0Control", "Text", "Unknown">>

\* C19: the alternatives are tried in the order ControlString,
\* IndependentControlFunction, ControlSequence, C1Control, C0Control, Text,
\* Unknown; the first that is not a NoMatch decides, a Match as that node, an
\* Indeterminate as Indeterminate.  So ESC and a control-string opener is
\* never a C1Control, ESC [ and a complete sequence is a ControlSequence and
\* not C1Control('['), and a lone ESC is not C0Control(ESC).
AlternativesInOrder ==
    op.name = "parse"
    => LET decided == {i \in 1..7 : ParseFn(i, op.arg).tag # "NoMatch"}
           first == CHOOSE i \in decided : \A j \in decided : i <= j
           after_csi == Drop(op.arg, 2)
           after_p == Drop(after_csi, RunLength(after_csi, 48, 63))
           after_i == Drop(after_p, RunLength(after_p, 32, 47))
       IN  /\ decided # {}
           /\ IF ParseFn(first, op.arg).tag = "Indeterminate"
              THEN parse_result.tag = "Indeterminate"
              ELSE /\ parse_result.tag = "Match"
                   /\ parse_result.node = ParseFn(first, op.arg).val
                   /\ parse_result.node.kind = KindOrder[first]
                   /\ parse_result.chars = ParseFn(first, op.arg).chars
           /\ (Len(op.arg) >= 2 /\ op.arg[1] = ESC /\ op.arg[2] \in {APC, DCS, OSC, PM, SOS})
              => \/ parse_result.tag = "Indeterminate"
                 \/ parse_result.node.kind = "ControlString"
           /\ (/\ Len(op.arg) >= 2 /\ op.arg[1] = ESC /\ op.arg[2] = 91
               /\ after_i # <<>> /\ Head(after_i) \in 64..126)
              => (parse_result.tag = "Match" /\ parse_result.node.kind = "ControlSequence")
           /\ op.arg = <<ESC>> => parse_result.tag = "Indeterminate"

\* C19 witness: ESC P BEL parsed: the control string DCS with an empty body,
\* not C1Control('P')
AlternativesInOrderWitness ==
    /\ op.name = "parse"
    /\ op.arg = <<27, 80, 7>>
    /\ parse_result = [tag |-> "Match", chars |-> <<>>, node |-> ControlString(DCS, <<>>)]

\* C20: an input that ends right after ESC [, or within the parameter bytes
\* or the intermediate bytes that follow, gives Indeterminate and no node.
TruncatedControlSequence ==
    (/\ op.name = "parse"
     /\ Len(op.arg) >= 2
     /\ op.arg[1] = ESC
     /\ op.arg[2] = 91)
    => LET after_csi == Drop(op.arg, 2)
           after_p == Drop(after_csi, RunLength(after_csi, 48, 63))
           after_i == Drop(after_p, RunLength(after_p, 32, 47))
       IN  after_i = <<>>
           => (parse_result = [tag |-> "Indeterminate"] /\ text_buffer = op.arg)

\* C20 witness: ESC [ 0 ! parsed: Indeterminate, the four characters stay pending
TruncatedControlSequenceWitness ==
    /\ op.name = "parse"
    /\ op.arg = <<27, 91, 48, 33>>
    /\ parse_result.tag = "Indeterminate"
    /\ text_buffer = <<27, 91, 48, 33>>

\* C21: an input of non-control characters only gives Match with Text of the
\* whole input and nothing left; every matched Text node is non-empty, holds
\* no control character, starts the input, and is followed by a control
\* character or by nothing.
TextIsMaximalRun ==
    op.name = "parse"
    => /\ (op.arg # <<>> /\ NoControl(op.arg))
          => /\ parse_result = [tag |-> "Match", chars |-> <<>>, node |-> Text(op.arg)]
             /\ text_buffer = <<>>
       /\ (parse_result.tag = "Match" /\ parse_result.node.kind = "Text")
          => /\ parse_result.node.text # <<>>
             /\ NoControl(parse_result.node.text)
             /\ op.arg = parse_result.node.text \o parse_result.chars
             /\ parse_result.chars # <<>> => is_control(Head(parse_result.chars))

\* C21 witness: "Hello, world" parsed: Text("Hello, world"), nothing left
TextIsMaximalRunWitness ==
    /\ op.name = "parse"
    /\ op.arg = <<72, 101, 108, 108, 111, 44, 32, 119, 111, 114, 108, 100>>
    /\ parse_result = [tag |-> "Match", chars |-> <<>>, node |-> Text(op.arg)]
    /\ text_buffer = <<>>

\* C22: erase_in_line("1") blanks the cells at columns 0 through the cursor's
\* of the current line and no other: the line keeps its length and the cells
\* to the right of the cursor keep their contents.
EraseToStartKeepsRight ==
    (/\ op.name = "erase_in_line"
     /\ op.arg = Some(<<49>>)
     /\ CellInBounds(pre))
    => LET r == pre.active_position.row + 1
           line == pre.lines[r]
       IN  /\ ~panicked
           /\ Len(lines) = Len(pre.lines)
           /\ Len(lines[r]) = Len(line)
           /\ \A c \in 1..Len(line) :
                  lines[r][c] = IF c <= pre.active_position.col + 1 THEN None ELSE line[c]

\* the string is one of the decimal numerals of a non-negative integer
IsNumeral(s) == s # <<>> /\ \A i \in 1..Len(s) : s[i] \in 48..57

\* C23: erase_in_line with a parameter other than none, "0", "1" or "2", and
\* delete_character with a parameter that is not a non-negative integer,
\* change no line, no cell and not the cursor, and do not fail.
MalformedParametersIgnored ==
    (\/ /\ op.name = "erase_in_line"
        /\ op.arg \notin {None, Some(<<48>>), Some(<<49>>), Some(<<50>>)}
     \/ /\ op.name = "delete_character"
        /\ ~IsNumeral(op.arg))
    => /\ ~panicked
       /\ lines = pre.lines
       /\ active_position = pre.active_position

\* C23 witness: delete_character("1;") with the cursor on the first of the
\* two cells "aa": both cells and the cursor stay
MalformedParametersIgnoredWitness ==
    /\ op.name = "delete_character"
    /\ op.arg = <<49, 59>>
    /\ pre.lines = <<<<Some(<<97>>), Some(<<97>>)>>>>
    /\ pre.active_position = [row |-> 0, col |-> 0]
    /\ lines = pre.lines
    /\ active_position = pre.active_position
    /\ ~panicked

\* the characters written before the last operation's
WrittenBefore == Take(fed, Len(fed) - (IF op.arg.kind = "Text" THEN Len(op.arg.text) ELSE 1))

\* C24: a Text node that starts with combining marks and follows another
\* Text node adds the marks to the cluster the active cell holds, in place;
\* each later cluster of the node takes one cell advanced to, and the cursor
\* ends on the last of them (where it was, if there is none).  No other
\* cell changes.
GraphemeMergeAcrossTextNodes ==
    (/\ op.name = "write_node"
     /\ op.arg.kind = "Text"
     /\ IsGraphemeExtend(op.arg.text[1])
     /\ WrittenBefore # <<>>
     /\ WrittenBefore[Len(WrittenBefore)] # 10)
    => LET text == op.arg.text
           k == ExtendRun(text, 1)
           later == Drop(text, k)
           n == Cardinality({i \in 1..Len(later) : ~IsGraphemeExtend(later[i])})
           r == pre.active_position.row + 1
           c == pre.active_position.col + 1
       IN  /\ ~panicked
           /\ IsSome(pre.lines[r][c])
           /\ lines[r][c] = Some(Unwrap(pre.lines[r][c]) \o Take(text, k))
           /\ active_position = [row |-> r - 1, col |-> c - 1 + n]
           /\ Len(lines) = Len(pre.lines)
           /\ \A q \in 1..Len(lines) : q # r => lines[q] = pre.lines[q]
           /\ Len(lines[r]) = Len(pre.lines[r]) + n
           /\ \A j \in 1..(c - 1) : lines[r][j] = pre.lines[r][j]
           /\ Flatten([j \in 1..n |-> Unwrap(lines[r][c + j])]) = later
           /\ \A j \in 1..n :
                  LET cluster == Unwrap(lines[r][c + j])
                  IN  /\ ~IsGraphemeExtend(cluster[1])
                      /\ \A i \in 2..Len(cluster) : IsGraphemeExtend(cluster[i])

\* C24 witness: Text("a") and then Text of U+0301, "b": the cell of "a" holds
\* "a" with the mark, "b" is in the next cell with the cursor
GraphemeMergeAcrossTextNodesWitness ==
    /\ op.name = "write_node"
    /\ op.arg = Text(<<769, 98>>)
    /\ fed = <<97, 769, 98>>
    /\ pre.lines = <<<<Some(<<97>>)>>>>
    /\ lines = <<<<Some(<<97, 769>>), Some(<<98>>)>>>>
    /\ active_position = [row |-> 0, col |-> 1]

\* the characters of s that are not whitespace
Strip(s) == SelectSeq(s, LAMBDA ch : ~is_whitespace(ch))

\* the number of lines render(max_lines) leaves out of a grid of n lines
Skipped(n, max_lines) == IF n > max_lines THEN n - max_lines ELSE 0

\* C25: render(max_lines) puts a cursor mark in its output if and only if the
\* active row is one of the last max_lines lines, and then puts one mark,
\* directly after the active cell: after everything the rendered lines above
\* the active row and the cells of the active row up to the active cell hold.
MarkerOnlyAtActiveCell ==
    (op.name = "render" /\ CellInBounds(pre))
    => LET skip == Skipped(Len(pre.lines), op.arg)
           row == pre.active_position.row
           col == pre.active_position.col
           marks == {i \in 1..Len(rendered) : rendered[i] = CURSOR_MARK}
           above == Flatten([q \in 1..(row - skip) |-> LineContent(pre.lines[skip + q])])
           upto == LineContent(Take(pre.lines[row + 1], col + 1))
           cell == pre.lines[row + 1][col + 1]
       IN  IF row < skip THEN marks = {}
           ELSE \E i \in 2..Len(rendered) :
                    /\ marks = {i}
                    /\ Strip(Take(rendered, i - 1)) = Strip(above \o upto)
                    /\ rendered[i - 1] =
                           IF IsSome(cell) THEN Unwrap(cell)[Len(Unwrap(cell))] ELSE SPACE

\* the lines of a string: the parts its newlines separate
RECURSIVE SplitLines(_)
SplitLines(s) ==
    IF \A i \in 1..Len(s) : s[i] # 10 THEN <<s>>
    ELSE LET i == CHOOSE i \in 1..Len(s) : s[i] = 10 /\ \A j \in 1..(i - 1) : s[j] # 10
         IN  <<Take(s, i - 1)>> \o SplitLines(Drop(s, i))

\* what the cells of a line show: each its grapheme, or a space
CellsText(line) ==
    Flatten([c \in 1..Len(line) |-> IF IsSome(line[c]) THEN Unwrap(line[c]) ELSE <<SPACE>>])

\* C26: render(max_lines), max_lines >= 1, gives as many lines as it renders
\* grid lines, min(max_lines, number of lines); the i-th, the cursor mark
\* apart, is what the cells of the i-th of the last max_lines grid lines
\* show, without the whitespace at its end.  A blank grid line gives an empty
\* line of its own.
OneOutputLinePerGridLine ==
    (op.name = "render" /\ op.arg >= 1)
    => LET skip == Skipped(Len(pre.lines), op.arg)
           out == SplitLines(rendered)
       IN  /\ Len(out) = Len(pre.lines) - skip
           /\ \A i \in 1..Len(out) :
                  trim_end(SelectSeq(out[i], LAMBDA ch : ch # CURSOR_MARK))
                      = trim_end(CellsText(pre.lines[skip + i]))

\* the text starts with ESC and one of the five openers of a control string
StartsControlString(text) ==
    Len(text) >= 2 /\ text[1] = ESC /\ text[2] \in {APC, DCS, OSC, PM, SOS}

\* the positions after the opener at which a terminator starts
Terminators(text) == {k \in 3..Len(text) : TerminatorAt(text, k)}

\* C27: a write call that finds a pending text starting with ESC and a
\* control-string opener (the bytes written being ASCII) either brings no
\* terminator, and then leaves the grid and the cursor as they were and the
\* pending text grown by the bytes written; or brings the first terminator,
\* and then the grid and the pending text become what a write of the
\* characters after the terminator alone makes of the grid as it was.
UnterminatedStringHoldsInput ==
    [][(StartsControlString(text_buffer) /\ ~panicked /\ op'.name = "write")
       => LET all == text_buffer \o op'.arg
          IN  IF Terminators(all) = {}
              THEN /\ lines' = lines
                   /\ active_position' = active_position
                   /\ text_buffer' = all
                   /\ ~panicked'
              ELSE LET k == CHOOSE k \in Terminators(all) : \A j \in Terminators(all) : k <= j
                       after == Drop(all, IF all[k] = BEL THEN k ELSE k + 1)
                       alone == write(TranslatorNew, Data, after)
                   IN  /\ lines' = alone.d.lines
                       /\ active_position' = alone.d.active_position
                       /\ text_buffer' = alone.t.text_buffer
                       /\ NoControl(after)
                          => /\ text_buffer' = <<>>
                             /\ Flatten([r \in 1..Len(lines') |-> LineContent(lines'[r])])
                                    = Flatten([r \in 1..Len(lines) |-> LineContent(lines[r])])
                                      \o after]_vars

\* C27 witness: ESC ] a was written and held back, the grid still blank; a
\* write of BEL, "a" has ended the string and put "a" on the grid
UnterminatedStringHoldsInputWitness ==
    /\ op.name = "write"
    /\ op.arg = <<7, 97>>
    /\ fed = <<27, 93, 97, 7, 97>>
    /\ pre.lines = <<<<None>>>>
    /\ lines = <<<<Some(<<97>>)>>>>
    /\ active_position = [row |-> 0, col |-> 0]
    /\ text_buffer = <<>>

\* C28: after every write call the pending text is empty or starts with ESC.
\* While no ESC has been written nothing is pending: the lines hold, in
\* order, every character written that is not a control character, one
\* line for each LF and the first.
PendingStartsWithEscape ==
    (op.name = "write" /\ ~panicked)
    => /\ text_buffer = <<>> \/ text_buffer[1] = ESC
       /\ (ESC \notin Range(fed))
          => /\ text_buffer = <<>>
             /\ Flatten([r \in 1..Len(lines) |-> LineContent(lines[r])])
                    = SelectSeq(fed, LAMBDA b : ~is_control(b))
             /\ Len(lines) = 1 + Len(SelectSeq(fed, LAMBDA b : b = 10))

\* C28 witness: "a" written, then DEL, LF, "a" in one call: nothing is
\* pending, "a" is on each of the two lines
PendingStartsWithEscapeWitness ==
    /\ op.name = "write"
    /\ op.arg = <<127, 10, 97>>
    /\ fed = <<97, 127, 10, 97>>
    /\ text_buffer = <<>>
    /\ lines = <<<<Some(<<97>>)>>, <<Some(<<97>>)>>>>
    /\ active_position = [row |-> 1, col |-> 0]

============================================================================
